---------------------------- MODULE Spec2Model ----------------------------
(***************************************************************************)
(* A model of pg_check's B-tree index page checker (src/src/index.c):      *)
(*   check_index_page, check_index_tuples, check_index_tuple and           *)
(*   check_index_tuple_attributes.                                         *)
(*                                                                         *)
(* The checker is a set of pure functions over a read-only page buffer.    *)
(* Each function is an operator computed the way the C code computes it;   *)
(* the state machine draws the inputs (page header, opaque trailer, line   *)
(* pointers, tuple bytes, relation schema) in Init and applies the         *)
(* functions in its actions.  Byte order is little-endian (the varlena     *)
(* macros of postgres.h for !WORDS_BIGENDIAN), pointers are 8 bytes wide.  *)
(***************************************************************************)
EXTENDS Integers, Sequences, FiniteSets, TLC

VARIABLES
    pc,        \* position of the driver: which function runs next
    block,     \* BlockNumber argument
    header,    \* PageHeader fields: pd_lower, pd_upper, pd_special
    meta,      \* BTMetaPageData fields read by BTPageGetMeta: btm_magic, btm_version
    opaque,    \* BTPageOpaqueData read at buffer + pd_special: btpo_next, level, btpo_flags
    slots,     \* header->pd_linp[]: sequence of [lp_off, lp_len, lp_flags]
    buffer,    \* the page bytes that hold tuples: [0 .. PageBytes-1 -> 0..255]
    schema,    \* rel->rd_att->attrs[]: sequence of [attlen, attbyval, attalign]
    i,         \* loop index of check_index_tuples (0-based, as in the code)
    nerrs,     \* running error total of the function being driven
    pageRes,   \* result of check_index_page, by check
    tupRes,    \* results of check_index_tuple, one per slot checked so far
    attRes,    \* result of check_index_tuple_attributes
    offnum,    \* OffsetNumber argument of check_index_tuple_attributes
    dlen,      \* dlen argument of check_index_tuple_attributes
    tup        \* how the tuple bytes in buffer were produced (input bookkeeping)

vars == <<pc, block, header, meta, opaque, slots, buffer, schema, i, nerrs,
          pageRes, tupRes, attRes, offnum, dlen, tup>>

-----------------------------------------------------------------------------
(* Constants of the PostgreSQL headers the code is compiled against.       *)

BLCKSZ == 8192
BTREE_METAPAGE == 0
BTREE_MAGIC == 340322
BTREE_VERSION == 2
\* sizeof(BTPageOpaque): BTPageOpaque is the pointer type BTPageOpaqueData *
SizeofBTPageOpaque == 8
\* sizeof(BTPageOpaqueData): btpo_prev, btpo_next, btpo, btpo_flags, btpo_cycleid
SizeofBTPageOpaqueData == 16
BTP_LEAF == 1
BTP_DELETED == 4
P_NONE == 0
P_HIKEY == 1
P_FIRSTKEY == 2
LP_UNUSED == 0
LP_NORMAL == 1
LP_REDIRECT == 2
LP_DEAD == 3

Pow2(n) == 2 ^ n

\* x & mask # 0 for a single-bit mask
TestMask(x, mask) == (x \div mask) % 2 = 1

P_ISLEAF(op) == TestMask(op.btpo_flags, BTP_LEAF)
P_ISDELETED(op) == TestMask(op.btpo_flags, BTP_DELETED)
P_RIGHTMOST(op) == op.btpo_next = P_NONE
P_FIRSTDATAKEY(op) == IF P_RIGHTMOST(op) THEN P_HIKEY ELSE P_FIRSTKEY

B2N(b) == IF b THEN 1 ELSE 0

-----------------------------------------------------------------------------
(* check_index_page                                                        *)

\* check_page_header (common.c): the generic header's offsets lie within the
\* page and are ordered.
check_page_header(hdr) ==
    B2N(hdr.pd_lower > BLCKSZ) + B2N(hdr.pd_upper > BLCKSZ)
    + B2N(hdr.pd_special > BLCKSZ)
    + B2N(hdr.pd_lower > hdr.pd_upper) + B2N(hdr.pd_upper > hdr.pd_special)

MetaMagicErr(m) == B2N(m.btm_magic # BTREE_MAGIC)

MetaVersionErr(m) == B2N(m.btm_version # BTREE_VERSION)

SpecialSpaceErr(hdr) == B2N(hdr.pd_special > BLCKSZ - SizeofBTPageOpaque)

LevelErr_NoDeletedExemption(op) ==
    IF P_ISLEAF(op) THEN B2N(op.level # 0) ELSE B2N(op.level = 0)

LevelErr(op) ==
    IF ~P_ISDELETED(op)
    THEN IF P_ISLEAF(op) THEN B2N(op.level # 0) ELSE B2N(op.level = 0)
    ELSE 0

check_index_page_MetaShortCircuit(blk, hdr, m, op) ==
    LET h == check_page_header(hdr)
        isMeta == blk = BTREE_METAPAGE
        mg == IF isMeta THEN MetaMagicErr(m) ELSE 0
        vs == IF isMeta /\ mg = 0 THEN MetaVersionErr(m) ELSE 0
        sp == IF isMeta THEN 0 ELSE SpecialSpaceErr(hdr)
        lv == IF isMeta THEN 0 ELSE LevelErr(op)
    IN  [hdr |-> h, magic |-> mg, version |-> vs, special |-> sp, level |-> lv,
         total |-> h + mg + vs + sp + lv]

check_index_page(blk, hdr, m, op) ==
    LET h == check_page_header(hdr)
        isMeta == blk = BTREE_METAPAGE
        mg == IF isMeta THEN MetaMagicErr(m) ELSE 0
        vs == IF isMeta THEN MetaVersionErr(m) ELSE 0
        sp == IF isMeta THEN 0 ELSE SpecialSpaceErr(hdr)
        lv == IF isMeta THEN 0 ELSE LevelErr(op)
    IN  [hdr |-> h, magic |-> mg, version |-> vs, special |-> sp, level |-> lv,
         total |-> h + mg + vs + sp + lv]

-----------------------------------------------------------------------------
(* Reading the page buffer.                                                *)

\* Bytes of the page buffer the model holds (a scaled-down BLCKSZ for the
\* tuple checks), and how far past it an unterminated scan is followed.
PageBytes == 48
OobSpan == 2
MemEnd == PageBytes + OobSpan

Min(a, b) == IF a < b THEN a ELSE b
Max(a, b) == IF a > b THEN a ELSE b
SetMin(S) == CHOOSE x \in S : \A y \in S : x <= y

\* A page as the tuple checks see it: pg.buffer, pg.slots, pg.opaque,
\* pg.schema, and pg.oob, the byte a read outside the buffer yields.
ByteAt(pg, p) == IF p \in DOMAIN pg.buffer THEN pg.buffer[p] ELSE pg.oob

TYPEALIGN(a, x) == ((x + a - 1) \div a) * a
MAXALIGN(x) == TYPEALIGN(8, x)

\* itup->t_info: uint16 after the 6-byte t_tid
TInfo(pg, lpoff) == ByteAt(pg, lpoff + 6) + 256 * ByteAt(pg, lpoff + 7)
\* t_info & INDEX_SIZE_MASK (0x1FFF)
IndexTupleSize(tinfo) == tinfo % 8192
\* t_info & INDEX_NULL_MASK (0x8000)
IndexTupleHasNulls(tinfo) == (tinfo \div 32768) % 2 = 1
\* MAXALIGN(sizeof(IndexTupleData)), with sizeof(IndexAttributeBitMapData)
\* added when the tuple has nulls
IndexInfoFindDataOffset(tinfo) ==
    IF ~IndexTupleHasNulls(tinfo) THEN MAXALIGN(8) ELSE MAXALIGN(8 + 4)

\* att_isnull(j, bitmap), bitmap = buffer + lp_off + sizeof(IndexTupleData):
\* the attribute is null when its bit is clear
att_isnull(pg, lpoff, j) ==
    ~TestMask(ByteAt(pg, lpoff + 8 + (j \div 8)), Pow2(j % 8))

att_align_nominal(off, attalign) ==
    CASE attalign = "i" -> TYPEALIGN(4, off)
      [] attalign = "c" -> off
      [] attalign = "d" -> TYPEALIGN(8, off)
      [] OTHER -> TYPEALIGN(2, off)

\* a varlena whose first byte is not a pad byte needs no alignment
att_align_pointer(pg, off, attalign, attlen) ==
    IF attlen = -1 /\ ByteAt(pg, off) # 0
    THEN off
    ELSE att_align_nominal(off, attalign)

VARATT_IS_1B(pg, p) == ByteAt(pg, p) % 2 = 1
VARATT_IS_1B_E(pg, p) == ByteAt(pg, p) = 1
VARATT_IS_COMPRESSED(pg, p) == ByteAt(pg, p) % 4 = 2
VARSIZE_1B(pg, p) == (ByteAt(pg, p) \div 2) % 128
\* (va_header >> 2) & 0x3FFFFFFF on the little-endian 4-byte header
VARSIZE_4B(pg, p) ==
    (ByteAt(pg, p) \div 4) + 64 * ByteAt(pg, p + 1)
    + 16384 * ByteAt(pg, p + 2) + 4194304 * ByteAt(pg, p + 3)
\* VARHDRSZ_EXTERNAL + VARTAG_SIZE(tag)
VARSIZE_EXTERNAL(pg, p) ==
    LET tag == ByteAt(pg, p + 1)
    IN  2 + (CASE tag = 1 -> 8
               [] tag = 2 \/ tag = 3 -> 8
               [] tag = 18 -> 16
               [] OTHER -> 1)
VARSIZE_ANY(pg, p) ==
    IF VARATT_IS_1B_E(pg, p) THEN VARSIZE_EXTERNAL(pg, p)
    ELSE IF VARATT_IS_1B(pg, p) THEN VARSIZE_1B(pg, p)
    ELSE VARSIZE_4B(pg, p)
\* va_compressed.va_rawsize, a uint32; values of 2^31 and more are held
\* as 2^31 - 1, which no comparison the code makes can tell apart
VARRAWSIZE_4B_C(pg, p) ==
    IF ByteAt(pg, p + 7) >= 128 THEN 2147483647
    ELSE ByteAt(pg, p + 4) + 256 * ByteAt(pg, p + 5)
         + 65536 * ByteAt(pg, p + 6) + 16777216 * ByteAt(pg, p + 7)

\* strnlen(buffer + start, (size_t) n): the length found and the end (exclusive)
\* of the bytes read.  A negative n is a huge size_t; a scan is followed to
\* MemEnd at most.
RECURSIVE ScanFrom(_, _, _, _)
ScanFrom(pg, start, k, lim) ==
    IF k >= lim THEN [len |-> lim, upto |-> start + lim]
    ELSE IF ByteAt(pg, start + k) = 0 THEN [len |-> k, upto |-> start + k + 1]
    ELSE ScanFrom(pg, start, k + 1, lim)

strnlen(pg, start, n) ==
    LET room == Max(0, MemEnd - start)
    IN  ScanFrom(pg, start, 0, IF n < 0 THEN room ELSE Min(n, room))

-----------------------------------------------------------------------------
(* check_index_tuple_attributes                                            *)

\* 1 when the raw size of a compressed varlena is reported
RawSizeErr(pg, p) ==
    B2N(VARRAWSIZE_4B_C(pg, p) < 0 \/ VARRAWSIZE_4B_C(pg, p) > 1024 * 1024)

\* The bound handed to strnlen for the attribute at off.  The local len is
\* declared in the loop body without a value and read here before the
\* iteration assigns it: uninit is whatever its storage holds at that point.
CStringBound(linp, off, uninit) == linp.lp_off + uninit + linp.lp_len - off

\* The overflow test of one attribute
Overflows(linp, off, len, dl) ==
    (dl > 0) /\ (off + len > linp.lp_off + linp.lp_len)

\* Where the next attribute starts
NextOff(off, len, dl) == off + (IF dl > 0 THEN len ELSE 0)

\* The state the loop over the attributes carries.  off and nerrs are the
\* code's locals.  The other fields record what the loop did: the attributes
\* it read (1-based), the errors by kind, the attribute at which it broke out
\* (0: none), the byte ranges its C-string scans read, and the offset and
\* length it found for each attribute it read.
LoopStart(off0) ==
    [off |-> off0, nerrs |-> 0, examined |-> {}, nulls |-> {}, neg |-> 0,
     raw |-> 0, ovf |-> 0, stopped |-> 0, scans |-> {}, found |-> {}]

\* One iteration of the loop, for attribute k (the code's j + 1).  garb is
\* what the storage of this iteration's len holds when the iteration starts.
\* Assert(len >= 0) is compiled out of a production build and changes nothing.
AttrStep(pg, linp, dl, garb, st, k) ==
    LET attr  == pg.schema[k]
        tinfo == TInfo(pg, linp.lp_off)
        is_varlena  == ~attr.attbyval /\ attr.attlen = -1
        is_varwidth == ~attr.attbyval /\ attr.attlen < 0
    IN  IF IndexTupleHasNulls(tinfo) /\ att_isnull(pg, linp.lp_off, k - 1)
        THEN [st EXCEPT !.nulls = @ \cup {k}]
        ELSE
        LET off  == att_align_pointer(pg, st.off, attr.attalign, attr.attlen)
            scan == strnlen(pg, off, CStringBound(linp, off, garb))
            len  == IF is_varlena THEN VARSIZE_ANY(pg, off)
                    ELSE IF is_varwidth THEN scan.len + 1
                    ELSE attr.attlen
            rawe == IF is_varlena /\ VARATT_IS_COMPRESSED(pg, off)
                    THEN RawSizeErr(pg, off) ELSE 0
            seen == [st EXCEPT
                       !.off = off,
                       !.examined = @ \cup {k},
                       !.found = @ \cup {[att |-> k, off |-> off, len |-> len,
                                             rawerr |-> rawe]},
                       !.scans = IF is_varwidth /\ ~is_varlena
                                 THEN @ \cup {[att |-> k, from |-> off,
                                               upto |-> scan.upto,
                                               len |-> len]}
                                 ELSE @]
        IN  IF is_varlena /\ len < 0
            THEN [seen EXCEPT !.nerrs = @ + 1, !.neg = @ + 1, !.stopped = k]
            ELSE IF Overflows(linp, off, len, dl)
            THEN [seen EXCEPT !.nerrs = @ + rawe + 1, !.raw = @ + rawe,
                              !.ovf = @ + 1, !.stopped = k]
            ELSE [seen EXCEPT !.nerrs = @ + rawe, !.raw = @ + rawe,
                              !.off = NextOff(off, len, dl)]

\* for (j = 0; j < natts; j++) ... with its two break statements.  garbs[k]
\* is what the len of iteration k holds before that iteration assigns it.
RECURSIVE AttrLoop_NoBreak(_, _, _, _, _, _)
AttrLoop_NoBreak(pg, linp, dl, garbs, st, k) ==
    IF k > Len(pg.schema)
    THEN st
    ELSE AttrLoop_NoBreak(pg, linp, dl, garbs,
                          AttrStep(pg, linp, dl, garbs[k], st, k), k + 1)

RECURSIVE AttrLoop(_, _, _, _, _, _)
AttrLoop(pg, linp, dl, garbs, st, k) ==
    IF k > Len(pg.schema) \/ st.stopped # 0
    THEN st
    ELSE AttrLoop(pg, linp, dl, garbs, AttrStep(pg, linp, dl, garbs[k], st, k), k + 1)

\* The test that skips the first data key of a non-leaf page
FirstKeySkip_HiKeyOnly(pg, offn, dl) ==
    ~P_ISLEAF(pg.opaque) /\ offn = P_HIKEY /\ dl = 0

FirstKeySkip(pg, offn, dl) ==
    ~P_ISLEAF(pg.opaque) /\ offn = P_FIRSTDATAKEY(pg.opaque) /\ dl = 0

\* The check after the loop
TailErr(linp, off) == B2N(MAXALIGN(off) > linp.lp_off + linp.lp_len)

\* garbs: for each attribute, what its iteration's len holds before it is
\* assigned
check_index_tuple_attributes(pg, offn, dl, garbs) ==
    LET linp == pg.slots[offn]
        off0 == linp.lp_off + IndexInfoFindDataOffset(TInfo(pg, linp.lp_off))
    IN  IF FirstKeySkip(pg, offn, dl)
        THEN LoopStart(off0) @@ [skipped |-> TRUE, tail |-> 0]
        ELSE LET st == AttrLoop(pg, linp, dl, garbs, LoopStart(off0), 1)
                 t  == TailErr(linp, st.off)
             IN  [st EXCEPT !.nerrs = @ + t] @@ [skipped |-> FALSE, tail |-> t]

\* What the storage of len may hold when the iteration that scans a C string
\* at off reads it.  Nothing initializes it, so it is any int: 0, the dlen
\* argument, the length an earlier iteration or call left there, a stack
\* address, of either sign.  Its only reader is the bound of the scan, which
\* it shifts by its own value, and the scan cannot tell two leftovers apart
\* unless they end it at different bytes: a bound below 0 is a huge size_t,
\* and every bound past the first zero byte (or past the last byte the scan
\* can be followed through) ends it where that byte does.  The leftovers
\* drawn are 0, dlen, the lengths of the attributes read so far, and one for
\* each bound from 0 up to that byte.
StackLeftovers(pg, linp, dl, st, off) ==
    {0, dl} \cup {f.len : f \in st.found}
    \cup {n - CStringBound(linp, off, 0) : n \in 0 .. (strnlen(pg, off, -1).len + 1)}

\* Iteration k reads its len unassigned: the attribute is not null and is a
\* C string (index.c:319).  No other iteration reads len before assigning it.
ReadsLeftover(pg, linp, k) ==
    /\ ~(IndexTupleHasNulls(TInfo(pg, linp.lp_off)) /\ att_isnull(pg, linp.lp_off, k - 1))
    /\ ~pg.schema[k].attbyval /\ pg.schema[k].attlen < 0 /\ pg.schema[k].attlen # -1

\* The runs of leftovers one call can meet: a fresh choice at every iteration
\* that reads its len unassigned, made where the loop stands at that
\* iteration; 0 at the iterations that never read it or never run.
RECURSIVE LeftoverRunsFrom(_, _, _, _, _, _)
LeftoverRunsFrom(pg, linp, dl, st, k, gs) ==
    IF k > Len(pg.schema) THEN {gs}
    ELSE IF st.stopped # 0
    THEN LeftoverRunsFrom(pg, linp, dl, st, k + 1, Append(gs, 0))
    ELSE IF ~ReadsLeftover(pg, linp, k)
    THEN LeftoverRunsFrom(pg, linp, dl, AttrStep(pg, linp, dl, 0, st, k), k + 1,
                          Append(gs, 0))
    ELSE UNION {LeftoverRunsFrom(pg, linp, dl, AttrStep(pg, linp, dl, g, st, k),
                                 k + 1, Append(gs, g)) :
                  g \in StackLeftovers(pg, linp, dl, st,
                                       att_align_pointer(pg, st.off,
                                                         pg.schema[k].attalign,
                                                         pg.schema[k].attlen))}

LeftoverRuns(pg, offn, dl) ==
    LET linp == pg.slots[offn]
        off0 == linp.lp_off + IndexInfoFindDataOffset(TInfo(pg, linp.lp_off))
    IN  IF FirstKeySkip(pg, offn, dl)
        THEN {[k \in 1 .. Len(pg.schema) |-> 0]}
        ELSE LeftoverRunsFrom(pg, linp, dl, LoopStart(off0), 1, <<>>)

-----------------------------------------------------------------------------
(* check_index_tuple and check_index_tuples                                *)

\* [A,C,B] or [A,D,B] or [C,A,D] or [C,B,D]
Intersects(a, b, c, d) ==
    \/ (a < c) /\ (c < b)
    \/ (a < d) /\ (d < b)
    \/ (c < a) /\ (a < d)
    \/ (c < b) /\ (b < d)

\* dlen as check_index_tuple computes it for the tuple at lpoff
TupleDlen(pg, lpoff) ==
    IndexTupleSize(TInfo(pg, lpoff)) - IndexInfoFindDataOffset(TInfo(pg, lpoff))

\* i0 is the code's 0-based i.  hits: the slots j (0-based) the overlap loop
\* reported against slot i0, one error each.
check_index_tuple(pg, i0, garbs) ==
    LET lp   == pg.slots[i0 + 1]
        a    == lp.lp_off
        b    == lp.lp_off + lp.lp_len
        hits == {j \in 0 .. (i0 - 1) :
                    /\ pg.slots[j + 1].lp_flags = LP_NORMAL
                    /\ Intersects(a, b, pg.slots[j + 1].lp_off,
                                  pg.slots[j + 1].lp_off + pg.slots[j + 1].lp_len)}
        att  == IF lp.lp_flags = LP_NORMAL
                THEN check_index_tuple_attributes(pg, i0 + 1, TupleDlen(pg, lp.lp_off),
                                                  garbs).nerrs
                ELSE 0
    IN  [hits |-> hits, overlap |-> Cardinality(hits), attrs |-> att,
         nerrs |-> Cardinality(hits) + att]

-----------------------------------------------------------------------------
(* Inputs: relation schemas and index tuples laid out the way the server   *)
(* lays them out (index_form_tuple), then possibly damaged.                *)

MaxAtts == 2     \* attributes per index
MaxData == 2     \* payload bytes of a variable-length value
MaxSlots == 3    \* line pointers per page

INT2 == [attlen |-> 2, attbyval |-> TRUE, attalign |-> "s"]
INT4 == [attlen |-> 4, attbyval |-> TRUE, attalign |-> "i"]
INT8 == [attlen |-> 8, attbyval |-> TRUE, attalign |-> "d"]
TEXT == [attlen |-> -1, attbyval |-> FALSE, attalign |-> "i"]
CSTRING == [attlen |-> -2, attbyval |-> FALSE, attalign |-> "c"]

\* raw sizes stored in compressed values: 0, 1 MiB, 1 MiB + 1, 1 GiB + 1
RawSizes == {0, 1048576, 1048577, 1073741825}

Val(kind, n, raw) == [kind |-> kind, n |-> n, raw |-> raw]

ValChoices(type) ==
    IF type = TEXT
    THEN {Val("short", n, 0) : n \in 0 .. MaxData}
         \cup {Val("long", n, 0) : n \in {0, MaxData}}
         \cup {Val("comp", 1, r) : r \in RawSizes}
         \cup {Val("ext", 16, 0)}
    ELSE IF type = CSTRING
    THEN {Val("cstr", n, 0) : n \in 0 .. MaxData}
    ELSE {Val("fixed", type.attlen, 0)}

\* an attribute with its stored value; a null is stored as no bytes at all
AttVals ==
    UNION {{[type |-> t, val |-> v] : v \in ValChoices(t)} :
             t \in {INT2, INT4, INT8, TEXT, CSTRING}}
    \cup {[type |-> t, val |-> Val("null", 0, 0)] : t \in {INT4}}

Tuples == UNION {[1 .. n -> AttVals] : n \in 1 .. MaxAtts}

HasNulls(atts) == \E k \in 1 .. Len(atts) : atts[k].val.kind = "null"
HasVarwidth(atts) == \E k \in 1 .. Len(atts) : atts[k].type.attlen < 0

Bytes(n, b) == [x \in 1 .. n |-> b]
LE4(x) == <<x % 256, (x \div 256) % 256, (x \div 65536) % 256,
            (x \div 16777216) % 256>>

\* the stored bytes of one value
Encode(v) ==
    CASE v.kind = "fixed" -> Bytes(v.n, 65)
      [] v.kind = "short" -> <<(v.n + 1) * 2 + 1>> \o Bytes(v.n, 65)
      [] v.kind = "long"  -> LE4((v.n + 4) * 4) \o Bytes(v.n, 65)
      [] v.kind = "comp"  -> LE4((v.n + 8) * 4 + 2) \o LE4(v.raw) \o Bytes(v.n, 65)
      [] v.kind = "ext"   -> <<1, 18>> \o Bytes(16, 65)
      [] v.kind = "cstr"  -> Bytes(v.n, 65) \o <<0>>
      [] OTHER -> <<>>

\* the data area: each value at its aligned place, short and external
\* varlenas unaligned, zero bytes as padding
RECURSIVE LayData(_, _, _)
LayData(atts, k, bytes) ==
    IF k > Len(atts) THEN bytes
    ELSE LET v   == atts[k].val
             pos == Len(bytes)
             at  == IF v.kind \in {"null", "short", "ext"} THEN pos
                    ELSE att_align_nominal(pos, atts[k].type.attalign)
         IN  LayData(atts, k + 1, bytes \o Bytes(at - pos, 0) \o Encode(v))

RECURSIVE NullBitmap(_, _)
NullBitmap(atts, k) ==
    IF k > Len(atts) THEN 0
    ELSE (IF atts[k].val.kind = "null" THEN 0 ELSE Pow2(k - 1))
         + NullBitmap(atts, k + 1)

HeaderSize(atts) == IF HasNulls(atts) THEN 16 ELSE 8
TrueSize(atts) == MAXALIGN(HeaderSize(atts) + Len(LayData(atts, 1, <<>>)))

\* the whole tuple; sizeField is what t_info says the tuple's size is
TupleImage(atts, sizeField) ==
    LET data  == LayData(atts, 1, <<>>)
        tinfo == sizeField + (IF HasNulls(atts) THEN 32768 ELSE 0)
                 + (IF HasVarwidth(atts) THEN 16384 ELSE 0)
        head  == Bytes(6, 0) \o <<tinfo % 256, tinfo \div 256>>
                 \o (IF HasNulls(atts)
                     THEN <<NullBitmap(atts, 1)>> \o Bytes(7, 0) ELSE <<>>)
    IN  head \o data \o Bytes(TrueSize(atts) - HeaderSize(atts) - Len(data), 0)

BufferWith(img, lpoff, fill) ==
    [p \in 0 .. (PageBytes - 1) |->
        IF p >= lpoff /\ p < lpoff + Len(img) THEN img[p - lpoff + 1] ELSE fill]

\* damage done to a tuple: lp_len shorter or longer than the tuple, or a
\* t_info size field that leaves no data bytes
Damages == {"none", "short6", "short5", "long1", "nodata"}
LpLenOf(atts, dmg) ==
    TrueSize(atts) + (CASE dmg = "short6" -> -6 [] dmg = "short5" -> -5
                        [] dmg = "long1" -> 1 [] OTHER -> 0)
SizeFieldOf(atts, dmg) ==
    IF dmg = "nodata" THEN HeaderSize(atts) ELSE TrueSize(atts)

FillBytes == {0, 65}
OobBytes == {0, 255}
Page(oob) == [buffer |-> buffer, slots |-> slots, opaque |-> opaque,
              schema |-> schema, oob |-> oob]

Slot(off, len, flags) == [lp_off |-> off, lp_len |-> len, lp_flags |-> flags]

-----------------------------------------------------------------------------
(* The state machines: inputs drawn in Init, functions applied in actions. *)

NoRes == [nerrs |-> 0]
NoHeader == [pd_lower |-> 24, pd_upper |-> BLCKSZ, pd_special |-> BLCKSZ]
NoMeta == [btm_magic |-> BTREE_MAGIC, btm_version |-> BTREE_VERSION]
NoTuple == [atts |-> <<>>, dmg |-> "none"]
ZeroBuffer == [p \in 0 .. (PageBytes - 1) |-> 0]

Opaque(next, level, flags) ==
    [btpo_next |-> next, level |-> level, btpo_flags |-> flags]

\* ---- check_index_page ----------------------------------------------------

SpecialChoices == {8100, 8176, 8177, 8180, 8184, 8185, 8192, 8200}

InitPage ==
    /\ pc = "page"
    /\ block \in {0, 1, 2}
    /\ header \in [pd_lower : {24}, pd_upper : {4000, 8190},
                   pd_special : SpecialChoices]
    /\ meta \in [btm_magic : {BTREE_MAGIC, BTREE_MAGIC + 1, 0},
                 btm_version : {BTREE_VERSION, BTREE_VERSION + 1, 0}]
    /\ opaque \in {Opaque(0, l, f) : l \in {0, 1, 7}, f \in {0, 1, 2, 3, 4, 5, 6, 21}}
    /\ slots = <<>> /\ buffer = ZeroBuffer /\ schema = <<>> /\ tup = NoTuple
    /\ i = 0 /\ nerrs = 0 /\ offnum = 0 /\ dlen = 0
    /\ pageRes = NoRes /\ tupRes = <<>> /\ attRes = NoRes

CheckIndexPage ==
    /\ pc = "page"
    /\ pageRes' = check_index_page(block, header, meta, opaque)
    /\ nerrs' = pageRes'.total
    /\ pc' = "pageDone"
    /\ UNCHANGED <<block, header, meta, opaque, slots, buffer, schema, i,
                   tupRes, attRes, offnum, dlen, tup>>

NextPage == CheckIndexPage

SpecPage == InitPage /\ [][NextPage]_vars

\* ---- check_index_tuples --------------------------------------------------

SlotChoices ==
    {Slot(o, l, f) : o \in {8, 12, 16}, l \in {0, 4, 8},
                     f \in {LP_UNUSED, LP_NORMAL, LP_REDIRECT, LP_DEAD}}

\* a page of 8-byte index tuples, each with one int4 key
KeyedBuffer == [p \in 0 .. (PageBytes - 1) |-> IF p % 8 = 6 THEN 16 ELSE 0]

InitTuples ==
    /\ pc = "tuples"
    /\ slots \in UNION {[1 .. n -> SlotChoices] : n \in 1 .. MaxSlots}
    /\ \E img \in {<<ZeroBuffer, <<INT4>> >>, <<KeyedBuffer, <<TEXT>> >>} :
          buffer = img[1] /\ schema = img[2]
    /\ opaque = Opaque(0, 0, BTP_LEAF)
    /\ block = 1 /\ header = NoHeader /\ meta = NoMeta /\ tup = NoTuple
    /\ i = 0 /\ nerrs = 0 /\ offnum = 0 /\ dlen = 0
    /\ pageRes = NoRes /\ tupRes = <<>> /\ attRes = NoRes

\* one iteration of the loop over the line pointers
CheckIndexTuple ==
    /\ pc = "tuples"
    /\ i < Len(slots)
    /\ \E oob \in OobBytes :
       \E garbs \in LeftoverRuns(Page(oob), i + 1,
                                 TupleDlen(Page(oob), slots[i + 1].lp_off)) :
          LET r == check_index_tuple(Page(oob), i, garbs)
          IN  /\ tupRes' = Append(tupRes, r)
              /\ nerrs' = nerrs + r.nerrs
    /\ i' = i + 1
    /\ UNCHANGED <<pc, block, header, meta, opaque, slots, buffer, schema,
                   pageRes, attRes, offnum, dlen, tup>>

\* the loop is over: the page total is reported and returned
ReturnTuples ==
    /\ pc = "tuples"
    /\ i >= Len(slots)
    /\ pc' = "tuplesDone"
    /\ UNCHANGED <<block, header, meta, opaque, slots, buffer, schema, i, nerrs,
                   pageRes, tupRes, attRes, offnum, dlen, tup>>

NextTuples == CheckIndexTuple \/ ReturnTuples

SpecTuples == InitTuples /\ [][NextTuples]_vars

\* ---- check_index_tuple_attributes ----------------------------------------

\* the tuple sits at the first max-aligned offset of the buffer past 0
LpOff == MAXALIGN(1)

\* the page kinds and tuple positions that decide the first-data-key rule:
\* <<btpo_next, level, btpo_flags, offnum>>
PageKinds == {<<0, 0, BTP_LEAF, 1>>, <<0, 1, 0, 1>>, <<5, 1, 0, 1>>, <<5, 1, 0, 2>>}

InitAttrs ==
    /\ pc = "attrs"
    /\ \E atts \in Tuples, dmg \in Damages, fill \in FillBytes, kind \in PageKinds :
          /\ LpOff + TrueSize(atts) <= PageBytes
          \* the page kind is read only when dlen = 0
          /\ (SizeFieldOf(atts, dmg) # HeaderSize(atts)) => kind[1] = 0
          /\ tup = [atts |-> atts, dmg |-> dmg]
          /\ schema = [k \in 1 .. Len(atts) |-> atts[k].type]
          /\ buffer = BufferWith(TupleImage(atts, SizeFieldOf(atts, dmg)), LpOff, fill)
          /\ opaque = Opaque(kind[1], kind[2], kind[3])
          /\ offnum = kind[4]
          /\ slots = [k \in 1 .. kind[4] |->
                        IF k = kind[4] THEN Slot(LpOff, LpLenOf(atts, dmg), LP_NORMAL)
                        ELSE Slot(0, 0, LP_UNUSED)]
          /\ dlen = SizeFieldOf(atts, dmg) - HeaderSize(atts)
    /\ block = 1 /\ header = NoHeader /\ meta = NoMeta
    /\ i = 0 /\ nerrs = 0
    /\ pageRes = NoRes /\ tupRes = <<>> /\ attRes = NoRes

CheckIndexTupleAttributes ==
    /\ pc = "attrs"
    /\ \E oob \in OobBytes :
          \E garbs \in LeftoverRuns(Page(oob), offnum, dlen) :
             attRes' = check_index_tuple_attributes(Page(oob), offnum, dlen, garbs)
    /\ nerrs' = attRes'.nerrs
    /\ pc' = "attrsDone"
    /\ UNCHANGED <<block, header, meta, opaque, slots, buffer, schema, i,
                   pageRes, tupRes, offnum, dlen, tup>>

NextAttrs == CheckIndexTupleAttributes

SpecAttrs == InitAttrs /\ [][NextAttrs]_vars

-----------------------------------------------------------------------------
(* Properties                                                              *)

\* the tuple check_index_tuple_attributes was called on, and its declared end
Linp == slots[offnum]
TupleEnd == Linp.lp_off + Linp.lp_len

\* the byte ranges [a, b) and [c, d) have a byte in common
ShareByte(a, b, c, d) == Max(a, c) < Min(b, d)

SlotEnd(n) == slots[n].lp_off + slots[n].lp_len

\* C1: for every pair of LP_NORMAL slots j < i, disjoint byte ranges give no
\* overlap error for the pair, and ranges that share a byte give exactly one.
C1_OverlapExactlyOnce ==
    \A n \in 1 .. Len(tupRes) : \A m \in 1 .. (n - 1) :
        (slots[n].lp_flags = LP_NORMAL /\ slots[m].lp_flags = LP_NORMAL)
        => ((m - 1) \in tupRes[n].hits
              <=> ShareByte(slots[n].lp_off, SlotEnd(n), slots[m].lp_off, SlotEnd(m)))

\* C3: a regular page whose special space is smaller than the B-tree trailer
\* returns at least one error; one whose special space is large enough gets
\* no special-space error.
C3_SpecialSpaceTooSmall ==
    (pc = "pageDone" /\ block # BTREE_METAPAGE)
    => /\ (BLCKSZ - header.pd_special < SizeofBTPageOpaqueData) => pageRes.total >= 1
       /\ (BLCKSZ - header.pd_special >= SizeofBTPageOpaqueData) => pageRes.special = 0

\* C4: on a regular page the level check reports exactly one error when the
\* page is not deleted and leaf-ness disagrees with level = 0, and none
\* otherwise; a deleted page gets none whatever its level and leaf flag.
C4_LevelConsistency ==
    (pc = "pageDone" /\ block # BTREE_METAPAGE)
    => LET deleted == (opaque.btpo_flags \div 4) % 2 = 1
           leaf    == opaque.btpo_flags % 2 = 1
       IN  pageRes.level =
             (IF ~deleted /\ ((leaf /\ opaque.level # 0) \/ (~leaf /\ opaque.level = 0))
              THEN 1 ELSE 0)

C4_Witness ==
    /\ pc = "pageDone" /\ block # BTREE_METAPAGE
    /\ (opaque.btpo_flags \div 4) % 2 = 1
    /\ opaque.btpo_flags % 2 = 1
    /\ opaque.level # 0
    /\ pageRes.level = 0

\* C5: on the meta page the errors are one for a wrong magic plus one for a
\* wrong version, each checked whatever the other, and neither the
\* special-space nor the level check is applied.
C5_MetaErrors ==
    (pc = "pageDone" /\ block = BTREE_METAPAGE)
    => /\ pageRes.magic = (IF meta.btm_magic # BTREE_MAGIC THEN 1 ELSE 0)
       /\ pageRes.version = (IF meta.btm_version # BTREE_VERSION THEN 1 ELSE 0)
       /\ pageRes.special = 0
       /\ pageRes.level = 0
       /\ pageRes.total = pageRes.hdr + pageRes.magic + pageRes.version

C5_Witness ==
    /\ pc = "pageDone" /\ block = BTREE_METAPAGE
    /\ meta.btm_magic # BTREE_MAGIC /\ meta.btm_version # BTREE_VERSION
    /\ pageRes.magic = 1 /\ pageRes.version = 1
    /\ header.pd_special > BLCKSZ - SizeofBTPageOpaque
    /\ opaque.btpo_flags = BTP_LEAF /\ opaque.level # 0

\* an attribute the loop read whose length check failed: a negative varlena
\* length, or (dlen > 0) an end past the tuple's declared end
FailedCheck(f) ==
    \/ schema[f.att].attlen = -1 /\ ~schema[f.att].attbyval /\ f.len < 0
    \/ dlen > 0 /\ f.off + f.len > TupleEnd

\* C2 as stated: a failed length check makes the function return exactly one
\* error for the tuple, and no later attribute is examined.
C2_ExactlyOneErrorInTotal ==
    pc = "attrsDone"
    => \A f \in attRes.found :
          FailedCheck(f) => /\ attRes.nerrs = 1
                            /\ \A k \in attRes.examined : k <= f.att

\* C2 as amended: a failed length check adds exactly one error and ends the
\* scan, no later attribute being examined; the tuple's total is that error,
\* plus the raw-size errors reported up to that attribute, plus the error of
\* the check after the loop when the max-aligned offset of the failing
\* attribute is past the tuple's declared end.
C2_OneErrorPerFailedCheck ==
    pc = "attrsDone"
    => \A f \in attRes.found :
          FailedCheck(f) => /\ attRes.stopped = f.att
                            /\ attRes.neg + attRes.ovf = 1
                            /\ \A k \in attRes.examined : k <= f.att
                            /\ attRes.tail =
                                 (IF MAXALIGN(f.off) > TupleEnd THEN 1 ELSE 0)
                            /\ attRes.nerrs = 1 + attRes.raw + attRes.tail

C2_Witness ==
    /\ pc = "attrsDone"
    /\ \E f \in attRes.found : /\ FailedCheck(f)
                               /\ f.att < Len(schema)
                               /\ attRes.examined = 1 .. f.att
    /\ attRes.ovf = 1
    /\ attRes.nerrs = 1

\* a tuple as the server writes it: undamaged, of fixed-width and varlena
\* attributes only, inline varlenas, raw sizes within (0, 1 GiB]
WellFormed(t) ==
    /\ t.dmg = "none"
    /\ \A k \in 1 .. Len(t.atts) :
          /\ t.atts[k].type # CSTRING
          /\ t.atts[k].val.kind # "ext"
          /\ t.atts[k].val.kind = "comp"
               => (t.atts[k].val.raw > 0 /\ t.atts[k].val.raw <= 1073741824)

\* C6: decoding a well-formed tuple gives no error and a final offset whose
\* max-alignment is the tuple's declared end.
C6_RoundTrip ==
    (pc = "attrsDone" /\ WellFormed(tup))
    => /\ attRes.nerrs = 0
       /\ MAXALIGN(attRes.off) = TupleEnd

\* C7: the first data key of a non-leaf page with dlen = 0 gives no error
\* and no attribute is inspected, whatever the schema and the bytes.
C7_FirstKeySkipped ==
    (/\ pc = "attrsDone"
     /\ opaque.btpo_flags % 2 = 0
     /\ offnum = (IF opaque.btpo_next = 0 THEN 1 ELSE 2)
     /\ dlen = 0)
    => /\ attRes.nerrs = 0
       /\ attRes.examined = {}
       /\ attRes.scans = {}

C7_Witness ==
    /\ pc = "attrsDone"
    /\ opaque.btpo_flags % 2 = 0 /\ opaque.btpo_next # 0 /\ offnum = 2
    /\ dlen = 0
    /\ \E k \in 1 .. Len(schema) : tup.atts[k].val.kind = "comp"
                                   /\ tup.atts[k].val.raw > 1073741824
    /\ attRes.nerrs = 0 /\ attRes.examined = {}

\* C8: for a compressed varlena the raw-size error is reported exactly when
\* the raw size is outside (0, 1 GiB].
C8_RawSizeWithinOneGiB ==
    pc = "attrsDone"
    => \A f \in attRes.found :
          (schema[f.att].attlen = -1 /\ VARATT_IS_COMPRESSED(Page(0), f.off))
          => (f.rawerr = 1
                <=> ~(VARRAWSIZE_4B_C(Page(0), f.off) > 0
                      /\ VARRAWSIZE_4B_C(Page(0), f.off) <= 1073741824))

\* C9: a slot that is not LP_NORMAL contributes no error: no attribute check,
\* and no overlap error, neither as the slot checked nor as a lower slot.
C9_NonNormalContributesNothing ==
    \A n \in 1 .. Len(tupRes) :
        slots[n].lp_flags # LP_NORMAL
        => /\ tupRes[n].nerrs = 0
           /\ \A m \in 1 .. Len(tupRes) : (n - 1) \notin tupRes[m].hits

\* C10: a C-string scan reads no byte at or past the tuple's declared end,
\* and with no terminator before the end the length is (end - off) + 1.
C10_ScanStaysInTuple ==
    pc = "attrsDone"
    => \A s \in attRes.scans :
          /\ s.upto <= Max(TupleEnd, s.from)
          /\ (\A p \in s.from .. (TupleEnd - 1) : ByteAt(Page(0), p) # 0)
               => s.len = (TupleEnd - s.from) + 1

=============================================================================
